---- MODULE Spec2Model ----
(***************************************************************************)
(* A model of the in-memory filesystem of src/src/index.ts                 *)
(* (VirtualFileSystem) and src/src/FileSystemNode.ts (Directory, File).    *)
(*                                                                         *)
(* Objects live in a heap: dirs[d] and files[f] hold the fields of the     *)
(* Directory and File objects, references are ids, null is Null.  A path   *)
(* string is held already split at its separators: abs says that it starts *)
(* with '/', segs are the pieces between separators, trail says that it    *)
(* ends with a separator ('' is no segments, '.' is the one segment ".").  *)
(* A call has an outcome: the ErrorMsg it throws ("" when it returns) and   *)
(* the state it leaves; what it changed before throwing stays changed.     *)
(* Byte counts are held in units of BufferBytes bytes, the size of the one *)
(* Buffer the callers write.  calls counts the calls that changed the      *)
(* state.                                                                  *)
(***************************************************************************)
EXTENDS Integers, Sequences, FiniteSets, TLC

VARIABLES dirs, files, currentDir, totalFileContentBytes, maxBytes, calls

vars == <<dirs, files, currentDir, totalFileContentBytes, maxBytes, calls>>

(***************************************************************************)
(* Bounds of the model.                                                    *)
(***************************************************************************)
\* Directory objects referenced at once (the root included).
MaxDirs == 3
\* File objects referenced at once.
MaxFiles == 2
\* Calls that change the state, in one run.
MaxCalls == 5

(***************************************************************************)
(* Program constants.                                                      *)
(***************************************************************************)
\* this.maxBytes = 1073741824 in the constructor
MaxBytesDefault == 1073741824
ROOT_PATH == "/"
MOVE_UP == ".."
CURRENT_DIR == "."

DirIds == 1 .. MaxDirs
FileIds == 1 .. MaxFiles
\* The Directory the constructor makes.
Root == 1
\* null (a parent) and undefined (a lookup that finds nothing).
Null == 0
\* The result of a walk that never returns.
Diverges == 0 - 1

(***************************************************************************)
(* Inputs.                                                                 *)
(***************************************************************************)
\* undefined content (a File made without content).
NoContent == "undefined"
\* The bytes of the Buffer the callers write: half the capacity.
BufferBytes == MaxBytesDefault \div 2
\* A number of bytes, in units of BufferBytes.
Units(bytes) == bytes \div BufferBytes
\* Contents a caller writes: the empty string and a Buffer.
Contents == {"", "buf"}

\* A Buffer of maxBytes bytes.
FullBuffer == "full"

\* Buffer.byteLength(content)
ByteLength(content) ==
    IF content = "buf" THEN Units(BufferBytes)
    ELSE IF content = FullBuffer THEN Units(MaxBytesDefault)
    ELSE 0

\* JavaScript truthiness of a content value: undefined and '' are falsy.
Truthy(content) == content # NoContent /\ content # ""

P(abs, segs, trail) == [abs |-> abs, segs |-> segs, trail |-> trail]

RootPath == P(TRUE, <<>>, FALSE)
DotPath == P(FALSE, <<CURRENT_DIR>>, FALSE)
EmptyPath == P(FALSE, <<>>, FALSE)

\* The path strings the callers pass: '/', '.', '..', 'a', 'b', 'a/b'.
Paths ==
    { RootPath, DotPath,
      P(FALSE, <<"..">>, FALSE),
      P(FALSE, <<"a">>, FALSE),
      P(FALSE, <<"b">>, FALSE),
      P(FALSE, <<"a", "b">>, FALSE) }

\* The path strings the callers pass to makeDirectory and makeFile: '',
\* 'a', 'b', 'a/b'.
MakePaths ==
    { EmptyPath,
      P(FALSE, <<"a">>, FALSE),
      P(FALSE, <<"b">>, FALSE),
      P(FALSE, <<"a", "b">>, FALSE) }

\* The new names the callers pass to the rename operations.
NewNames == {"a", "b"}

\* process.cwd() of the host process, which path.relative resolves a
\* relative path against: the segments of an absolute path.
ProcessCwds == { <<>>, <<"a">> }

(***************************************************************************)
(* node:path (posix)                                                       *)
(***************************************************************************)
RECURSIVE NormalizeSegs(_, _, _)
\* normalizeString: '.' is dropped, '..' removes the segment before it, and
\* is kept only when nothing is left to remove and the path is relative.
NormalizeSegs(segs, acc, allowAboveRoot) ==
    IF segs = <<>> THEN acc
    ELSE LET s == Head(segs)
             n == Len(acc)
         IN  IF s = CURRENT_DIR
             THEN NormalizeSegs(Tail(segs), acc, allowAboveRoot)
             ELSE IF s = MOVE_UP
             THEN IF n > 0 /\ acc[n] # MOVE_UP
                  THEN NormalizeSegs(Tail(segs), SubSeq(acc, 1, n - 1), allowAboveRoot)
                  ELSE IF allowAboveRoot
                  THEN NormalizeSegs(Tail(segs), Append(acc, s), allowAboveRoot)
                  ELSE NormalizeSegs(Tail(segs), acc, allowAboveRoot)
             ELSE NormalizeSegs(Tail(segs), Append(acc, s), allowAboveRoot)

\* path.normalize
Normalize(p) ==
    LET segs == NormalizeSegs(p.segs, <<>>, ~p.abs)
    IN  IF segs = <<>>
        THEN IF p.abs THEN RootPath ELSE P(FALSE, <<CURRENT_DIR>>, p.trail)
        ELSE P(p.abs, segs, p.trail)

\* path.basename
Basename(p) ==
    IF p.segs = <<>> THEN "" ELSE p.segs[Len(p.segs)]

\* path.dirname
Dirname(p) ==
    IF Len(p.segs) <= 1
    THEN IF p.abs THEN RootPath ELSE DotPath
    ELSE P(p.abs, SubSeq(p.segs, 1, Len(p.segs) - 1), FALSE)

\* path.isAbsolute
IsAbsolute(p) == p.abs

\* path.resolve of one path: the segments of the absolute path it names.
Resolve(p, cwd) ==
    NormalizeSegs((IF p.abs THEN <<>> ELSE cwd) \o p.segs, <<>>, FALSE)

\* path.relative(from, to) === ''
RelativeIsEmpty(from, to, cwd) == Resolve(from, cwd) = Resolve(to, cwd)

\* The string parentPath + '/' + name, split at its separators: a name that
\* is '' or '/' adds no segment and leaves the string ending in a separator.
JoinName(parentPath, name) ==
    IF name = "" \/ name = ROOT_PATH
    THEN P(parentPath.abs, parentPath.segs, parentPath.segs # <<>>)
    ELSE P(parentPath.abs, Append(parentPath.segs, name), FALSE)

\* A node name read as a path string.
NameAsPath(name) ==
    IF name = ROOT_PATH THEN RootPath
    ELSE IF name = "" THEN EmptyPath
    ELSE P(FALSE, <<name>>, FALSE)

(***************************************************************************)
(* The heap.  A heap h is [dirs |-> ..., files |-> ...]; the operators     *)
(* below take the heap they read and give the heap they leave.             *)
(***************************************************************************)
\* contentByteCount of a File that was never given content.
NoCount == 0 - 1

\* A JavaScript Map from names to node references.
EmptyMap == [n \in {} |-> Null]
MapGet(m, k) == IF k \in DOMAIN m THEN m[k] ELSE Null
MapSet(m, k, v) == [n \in (DOMAIN m) \cup {k} |-> IF n = k THEN v ELSE m[n]]
MapDelete(m, k) == [n \in (DOMAIN m) \ {k} |-> m[n]]
MapValues(m) == {m[k] : k \in DOMAIN m}

\* A slot of the heap that holds no object.
FreeDir ==
    [name |-> "", parent |-> Null,
     directoriesByName |-> EmptyMap, filesByName |-> EmptyMap]
FreeFile ==
    [name |-> "", parent |-> Null, content |-> NoContent,
     contentByteCount |-> NoCount]

\* new Directory({parent, name})
NewDirectory(parent, name) ==
    [name |-> name, parent |-> parent,
     directoriesByName |-> EmptyMap, filesByName |-> EmptyMap]

\* new File({parent, name, content})
NewFile(parent, name, content) ==
    [name |-> name, parent |-> parent,
     content |-> IF Truthy(content) THEN content ELSE NoContent,
     contentByteCount |-> IF Truthy(content) THEN ByteLength(content) ELSE NoCount]

Heap == [dirs |-> dirs, files |-> files]

DirNode(d) == [k |-> "d", id |-> d]
FileNode(f) == [k |-> "f", id |-> f]

\* The objects a node holds a reference to.
Refs(h, n) ==
    IF n.k = "d"
    THEN {DirNode(x) : x \in MapValues(h.dirs[n.id].directoriesByName)}
         \cup {FileNode(x) : x \in MapValues(h.dirs[n.id].filesByName)}
         \cup (IF h.dirs[n.id].parent = Null THEN {}
               ELSE {DirNode(h.dirs[n.id].parent)})
    ELSE IF h.files[n.id].parent = Null THEN {}
         ELSE {DirNode(h.files[n.id].parent)}

RECURSIVE Closure(_, _)
Closure(h, S) ==
    LET next == S \cup UNION {Refs(h, n) : n \in S}
    IN  IF next = S THEN S ELSE Closure(h, next)

\* The objects the program can still reach: those referenced, directly or
\* through other objects, from the VirtualFileSystem (its currentDir) and
\* from the root the constructor made.
Live(h, cd) == Closure(h, {DirNode(cd), DirNode(Root)})

\* The slots that hold an object.  Only the constructor makes a Directory
\* without a parent, and no File is without one.
InUseDirs(h) == {d \in DirIds : d = Root \/ h.dirs[d].parent # Null}
InUseFiles(h) == {f \in FileIds : h.files[f].parent # Null}

\* Garbage collection: an object nothing references is gone, its slot is
\* free for the next object.
Collect(h, cd) ==
    LET live == Live(h, cd)
    IN  [dirs |-> [d \in DirIds |->
                     IF DirNode(d) \in live THEN h.dirs[d] ELSE FreeDir],
         files |-> [f \in FileIds |->
                     IF FileNode(f) \in live THEN h.files[f] ELSE FreeFile]]

\* The outcome of a call: the ErrorMsg thrown ("" when it returns) and the
\* heap it leaves.
Ok(h) == [err |-> "", h |-> h]
Throw(e, h) == [err |-> e, h |-> h]

(***************************************************************************)
(* FileSystemNode                                                          *)
(***************************************************************************)
\* The error of a recursion that never ends: the call stack overflows.
RangeError == "RangeError"
\* A path that could not be built.
NoPath == [abs |-> FALSE, segs |-> <<RangeError>>, trail |-> FALSE]

RECURSIVE DirGetPath(_, _, _)
\* FileSystemNode.getPath on a Directory.  fuel counts the calls left on
\* the stack: a parent chain longer than the heap is a cycle.
DirGetPath(h, d, fuel) ==
    IF h.dirs[d].parent = Null THEN NameAsPath(h.dirs[d].name)
    ELSE IF fuel = 0 THEN NoPath
    ELSE LET pp == DirGetPath(h, h.dirs[d].parent, fuel - 1)
         IN  IF pp = NoPath THEN NoPath
             ELSE Normalize(JoinName(pp, h.dirs[d].name))

\* FileSystemNode.getPath on a File.
FileGetPath(h, f) ==
    LET pp == DirGetPath(h, h.files[f].parent, MaxDirs)
    IN  IF pp = NoPath THEN NoPath
        ELSE Normalize(JoinName(pp, h.files[f].name))

(***************************************************************************)
(* Directory                                                               *)
(***************************************************************************)
\* Directory.hasDirectory
HasDirectory(h, this, name) ==
    MapGet(h.dirs[this].directoriesByName, name) # Null

\* Directory.hasFile
HasFile(h, this, name) ==
    MapGet(h.dirs[this].filesByName, name) # Null

\* addDirectory without its check for a file of that name.
AddDirectoryUnchecked(h, this, dir) ==
    Ok([h EXCEPT
          !.dirs[dir].parent = this,
          !.dirs[this].directoriesByName = MapSet(@, h.dirs[dir].name, dir)])

\* Directory.addDirectory
AddDirectory(h, this, dir) ==
    IF HasFile(h, this, h.dirs[dir].name)
    THEN Throw("AmbiguousPath", h)
    ELSE Ok([h EXCEPT
               !.dirs[dir].parent = this,
               !.dirs[this].directoriesByName = MapSet(@, h.dirs[dir].name, dir)])

\* addFile without its check for a directory of that name.
AddFileUnchecked(h, this, file) ==
    Ok([h EXCEPT
          !.files[file].parent = this,
          !.dirs[this].filesByName = MapSet(@, h.files[file].name, file)])

\* Directory.addFile
AddFile(h, this, file) ==
    IF HasDirectory(h, this, h.files[file].name)
    THEN Throw("AmbiguousPath", h)
    ELSE Ok([h EXCEPT
               !.files[file].parent = this,
               !.dirs[this].filesByName = MapSet(@, h.files[file].name, file)])

\* Directory.createAndAddDirectory; id is the slot of the new object.
CreateAndAddDirectory(h, this, name, id) ==
    IF name = ROOT_PATH
    THEN Throw("DirectoryExists", h)
    ELSE AddDirectory([h EXCEPT !.dirs[id] = NewDirectory(this, name)], this, id)

\* Directory.createAndAddFile; id is the slot of the new object.
CreateAndAddFile(h, this, name, content, id) ==
    AddFile([h EXCEPT !.files[id] = NewFile(this, name, content)], this, id)

\* Directory.removeDirectory
DirRemoveDirectory(h, this, name) ==
    IF name = ROOT_PATH
    THEN Throw("CannotUpdateRoot", h)
    ELSE Ok([h EXCEPT !.dirs[this].directoriesByName = MapDelete(@, name)])

\* Directory.removeFile
DirRemoveFile(h, this, name) ==
    Ok([h EXCEPT !.dirs[this].filesByName = MapDelete(@, name)])

RECURSIVE SumBytes(_, _, _)
\* The first loop of getTotalByteCount: file.contentByteCount ?? 0 summed
\* over the entries K of the file map.
SumBytes(h, d, K) ==
    IF K = {} THEN 0
    ELSE LET k == CHOOSE x \in K : TRUE
             c == h.files[h.dirs[d].filesByName[k]].contentByteCount
         IN  (IF c = NoCount THEN 0 ELSE c) + SumBytes(h, d, K \ {k})

RECURSIVE DirGetTotalByteCount(_, _, _)
RECURSIVE SumSubdirectories(_, _, _, _)
\* The second loop of getTotalByteCount, over the entries K of the
\* directory map.
SumSubdirectories(h, d, K, fuel) ==
    IF K = {} THEN 0
    ELSE LET k == CHOOSE x \in K : TRUE
             sub == DirGetTotalByteCount(h, h.dirs[d].directoriesByName[k], fuel)
             rest == SumSubdirectories(h, d, K \ {k}, fuel)
         IN  IF sub = NoCount \/ rest = NoCount THEN NoCount ELSE sub + rest

\* Directory.getTotalByteCount; fuel counts the calls left on the stack, and
\* the result is NoCount when the recursion never ends.
DirGetTotalByteCount(h, d, fuel) ==
    IF fuel = 0 THEN NoCount
    ELSE LET subs == SumSubdirectories(
                         h, d, DOMAIN h.dirs[d].directoriesByName, fuel - 1)
         IN  IF subs = NoCount THEN NoCount
             ELSE SumBytes(h, d, DOMAIN h.dirs[d].filesByName) + subs

\* An optional argument that was not given.
NoArg == "undefined"

\* Directory.update({name, parent})
DirUpdate(h, this, nameArg, parentArg) ==
    IF h.dirs[this].parent = Null
    THEN Throw("CannotUpdateRoot", h)
    ELSE LET originalParent == h.dirs[this].parent
             originalName == h.dirs[this].name
             name == IF nameArg = NoArg THEN h.dirs[this].name ELSE nameArg
             parent == IF parentArg = Null THEN h.dirs[this].parent ELSE parentArg
         IN  IF MapGet(h.dirs[parent].filesByName, name) # Null
             THEN Throw("AmbiguousPath", h)
             ELSE LET h1 == [h EXCEPT !.dirs[this].name = name,
                                      !.dirs[this].parent = parent]
                      added == AddDirectory(h1, parent, this)
                  IN  IF added.err # "" THEN added
                      ELSE DirRemoveDirectory(added.h, originalParent, originalName)

(***************************************************************************)
(* File                                                                    *)
(***************************************************************************)
\* File.update({name, parent, content})
FileUpdate(h, this, nameArg, parentArg, contentArg) ==
    LET originalName == h.files[this].name
        originalParent == h.files[this].parent
        name == IF nameArg = NoArg THEN h.files[this].name ELSE nameArg
        parent == IF parentArg = Null THEN h.files[this].parent ELSE parentArg
        content == IF contentArg = NoContent THEN h.files[this].content ELSE contentArg
        h1 == [h EXCEPT !.files[this].name = name,
                        !.files[this].content = content]
        added == AddFile(h1, parent, this)
    IN  IF added.err # "" THEN added
        ELSE DirRemoveFile(added.h, originalParent, originalName)

\* File.setContent
SetContent(h, this, content) ==
    [h EXCEPT !.files[this].contentByteCount = ByteLength(content),
              !.files[this].content = content]

(***************************************************************************)
(* VirtualFileSystem: path resolution                                      *)
(***************************************************************************)
DIRECTORY == "directory"
FILE == "file"

RECURSIVE GetRootFrom(_, _, _)
\* The loop of _getRoot from directory d; a parent chain longer than the
\* heap is a cycle, and the loop never ends.
GetRootFrom(h, d, fuel) ==
    IF h.dirs[d].parent = Null THEN d
    ELSE IF fuel = 0 THEN Diverges
    ELSE GetRootFrom(h, h.dirs[d].parent, fuel - 1)

\* VirtualFileSystem._getRoot
GetRoot(h, cd) == GetRootFrom(h, cd, MaxDirs)

RECURSIVE WalkPath(_, _, _)
\* The loop of _getTarget over pathArray, from directory currDir.
WalkPath(h, currDir, pathArray) ==
    IF pathArray = <<>> THEN currDir
    ELSE LET nextPath == Head(pathArray)
             next == IF nextPath = MOVE_UP
                     THEN IF h.dirs[currDir].parent # Null
                          THEN h.dirs[currDir].parent ELSE currDir
                     ELSE IF nextPath = CURRENT_DIR THEN currDir
                     ELSE MapGet(h.dirs[currDir].directoriesByName, nextPath)
         IN  IF next = Null THEN Null
             ELSE WalkPath(h, next, Tail(pathArray))

\* VirtualFileSystem._getTarget: the id of the node found, Null when there
\* is none (undefined), Diverges when the call never returns.
GetTarget(h, cd, rawPath, type) ==
    LET path == Normalize(rawPath)
    IN  IF type = DIRECTORY /\ ~path.abs /\ path.segs = <<CURRENT_DIR>>
        THEN cd
        ELSE IF type = DIRECTORY /\ path = RootPath
        THEN GetRoot(h, cd)
        ELSE IF type = DIRECTORY /\ ~path.abs /\ path.segs = <<MOVE_UP>>
        THEN IF h.dirs[cd].parent # Null THEN h.dirs[cd].parent ELSE cd
        ELSE LET pathArray == Dirname(path).segs
                 start == IF IsAbsolute(path) THEN GetRoot(h, cd) ELSE cd
             IN  IF start = Diverges THEN Diverges
                 ELSE LET currDir == WalkPath(h, start, pathArray)
                          targetName == Basename(path)
                      IN  IF currDir = Null THEN Null
                          ELSE IF type = DIRECTORY
                          THEN MapGet(h.dirs[currDir].directoriesByName, targetName)
                          ELSE MapGet(h.dirs[currDir].filesByName, targetName)

\* VirtualFileSystem._getTargetDirectory
GetTargetDirectory(h, cd, path) == GetTarget(h, cd, path, DIRECTORY)

\* VirtualFileSystem._getTargetFile
GetTargetFile(h, cd, path) == GetTarget(h, cd, path, FILE)

(***************************************************************************)
(* VirtualFileSystem: the public operations.  Each takes the state st it   *)
(* is called in, [h, cd, total, max], and gives the outcome: the error     *)
(* thrown ("" when it returns) and the state it leaves.                    *)
(***************************************************************************)
\* The call never returns (a loop that does not end).
Hang == "Hang"
\* The call needs a new object and the heap of the model is full.
NoSlot == "NoSlot"

State ==
    [h |-> Heap, cd |-> currentDir, total |-> totalFileContentBytes,
     max |-> maxBytes]

Outcome(err, h, cd, total) == [err |-> err, h |-> h, cd |-> cd, total |-> total]
\* Thrown before anything was changed.
Fails(st, err) == Outcome(err, st.h, st.cd, st.total)

\* VirtualFileSystem.changeDirectory
DoChangeDirectory(st, path) ==
    LET targetDir == GetTargetDirectory(st.h, st.cd, path)
    IN  IF targetDir = Diverges THEN Fails(st, Hang)
        ELSE IF targetDir = Null THEN Fails(st, "DirectoryNotFound")
        ELSE Outcome("", st.h, targetDir, st.total)

\* VirtualFileSystem.makeDirectory; id is the slot a new object would take.
DoMakeDirectory(st, rawPath, id) ==
    IF rawPath = EmptyPath THEN Fails(st, "MissingPath")
    ELSE LET path == Normalize(rawPath)
             name == Basename(path)
             targetDir == GetTargetDirectory(st.h, st.cd, Dirname(path))
         IN  IF targetDir = Diverges THEN Fails(st, Hang)
             ELSE IF targetDir = Null THEN Fails(st, "DirectoryNotFound")
             ELSE IF id = Null /\ name # ROOT_PATH THEN Fails(st, NoSlot)
             ELSE LET r == CreateAndAddDirectory(st.h, targetDir, name, id)
                  IN  Outcome(r.err, r.h, st.cd, st.total)

\* VirtualFileSystem.makeFile; id is the slot a new object would take.
DoMakeFile(st, rawPath, id) ==
    LET path == Normalize(rawPath)
        name == Basename(path)
        targetDir == GetTargetDirectory(st.h, st.cd, Dirname(path))
    IN  IF targetDir = Diverges THEN Fails(st, Hang)
        ELSE IF targetDir = Null THEN Fails(st, "DirectoryNotFound")
        ELSE IF id = Null THEN Fails(st, NoSlot)
        ELSE LET r == CreateAndAddFile(st.h, targetDir, name, NoContent, id)
             IN  Outcome(r.err, r.h, st.cd, st.total)

\* VirtualFileSystem.removeDirectory
DoRemoveDirectory(st, path) ==
    LET dir == GetTargetDirectory(st.h, st.cd, path)
    IN  IF dir = Diverges THEN Fails(st, Hang)
        ELSE IF dir = Null THEN Fails(st, "DirectoryNotFound")
        ELSE IF st.h.dirs[dir].parent = Null THEN Fails(st, "CannotUpdateRoot")
        ELSE LET bytes == DirGetTotalByteCount(st.h, dir, MaxDirs)
             IN  IF bytes = NoCount THEN Fails(st, RangeError)
                 ELSE LET r == DirRemoveDirectory(
                                   st.h, st.h.dirs[dir].parent, st.h.dirs[dir].name)
                      IN  Outcome(r.err, r.h, st.cd, st.total - bytes)

\* VirtualFileSystem.removeFile
DoRemoveFile(st, path) ==
    LET file == GetTargetFile(st.h, st.cd, path)
    IN  IF file = Diverges THEN Fails(st, Hang)
        ELSE IF file = Null THEN Fails(st, "FileNotFound")
        ELSE LET content == st.h.files[file].content
                 total == IF Truthy(content)
                          THEN st.total - ByteLength(content) ELSE st.total
                 r == DirRemoveFile(
                          st.h, st.h.files[file].parent, st.h.files[file].name)
             IN  Outcome(r.err, r.h, st.cd, total)

\* VirtualFileSystem.readFile: the error thrown and the content returned.
DoReadFile(st, path) ==
    LET file == GetTargetFile(st.h, st.cd, path)
    IN  IF file = Diverges THEN [err |-> Hang, content |-> NoContent]
        ELSE IF file = Null THEN [err |-> "FileNotFound", content |-> NoContent]
        ELSE [err |-> "", content |-> st.h.files[file].content]

\* writeFile refusing a write that lands exactly on maxBytes.
DoWriteFileOffByOne(st, path, content) ==
    LET file == GetTargetFile(st.h, st.cd, path)
    IN  IF file = Diverges THEN Fails(st, Hang)
        ELSE IF file = Null THEN Fails(st, "FileNotFound")
        ELSE LET bytes == ByteLength(content)
             IN  IF st.total + bytes >= st.max
                 THEN Fails(st, "OutOfMemory")
                 ELSE Outcome("", SetContent(st.h, file, content), st.cd,
                              st.total + bytes)

\* writeFile taking the size of the content it replaces off the counter.
DoWriteFileDifference(st, path, content) ==
    LET file == GetTargetFile(st.h, st.cd, path)
    IN  IF file = Diverges THEN Fails(st, Hang)
        ELSE IF file = Null THEN Fails(st, "FileNotFound")
        ELSE LET bytes == ByteLength(content)
                 old == IF st.h.files[file].contentByteCount = NoCount THEN 0
                        ELSE st.h.files[file].contentByteCount
             IN  IF st.total + bytes > st.max
                 THEN Fails(st, "OutOfMemory")
                 ELSE Outcome("", SetContent(st.h, file, content), st.cd,
                              st.total + bytes - old)

\* VirtualFileSystem.writeFile
DoWriteFile(st, path, content) ==
    LET file == GetTargetFile(st.h, st.cd, path)
    IN  IF file = Diverges THEN Fails(st, Hang)
        ELSE IF file = Null THEN Fails(st, "FileNotFound")
        ELSE LET bytes == ByteLength(content)
             IN  IF st.total + bytes > st.max
                 THEN Fails(st, "OutOfMemory")
                 ELSE Outcome("", SetContent(st.h, file, content), st.cd,
                              st.total + bytes)

\* VirtualFileSystem.moveFile
DoMoveFile(st, path, targetDirPath) ==
    LET file == GetTargetFile(st.h, st.cd, path)
    IN  IF file = Diverges THEN Fails(st, Hang)
        ELSE LET targetDir == GetTargetDirectory(st.h, st.cd, targetDirPath)
             IN  IF targetDir = Diverges THEN Fails(st, Hang)
                 ELSE IF file = Null THEN Fails(st, "FileNotFound")
                 ELSE IF targetDir = Null THEN Fails(st, "DirectoryNotFound")
                 ELSE LET originalParent == st.h.files[file].parent
                          added == AddFile(st.h, targetDir, file)
                          r == IF added.err # "" THEN added
                               ELSE DirRemoveFile(added.h, originalParent,
                                                  added.h.files[file].name)
                      IN  Outcome(r.err, r.h, st.cd, st.total)

\* VirtualFileSystem.renameFile
DoRenameFile(st, path, name) ==
    LET file == GetTargetFile(st.h, st.cd, path)
        originalName == Basename(path)
    IN  IF file = Diverges THEN Fails(st, Hang)
        ELSE IF file = Null THEN Fails(st, "FileNotFound")
        ELSE LET updated == FileUpdate(st.h, file, name, Null, NoContent)
                 r == IF updated.err # "" THEN updated
                      ELSE DirRemoveFile(updated.h, updated.h.files[file].parent,
                                         originalName)
             IN  Outcome(r.err, r.h, st.cd, st.total)

\* VirtualFileSystem.renameDirectory
DoRenameDirectory(st, path, name) ==
    IF Normalize(path) = RootPath THEN Fails(st, "CannotUpdateRoot")
    ELSE LET directory == GetTargetDirectory(st.h, st.cd, path)
             originalName == Basename(path)
         IN  IF directory = Diverges THEN Fails(st, Hang)
             ELSE IF directory = Null THEN Fails(st, "DirectoryNotFound")
             ELSE LET updated == DirUpdate(st.h, directory, name, Null)
                      parent == updated.h.dirs[directory].parent
                      r == IF updated.err # "" \/ parent = Null THEN updated
                           ELSE DirRemoveDirectory(updated.h, parent, originalName)
                  IN  Outcome(r.err, r.h, st.cd, st.total)

\* VirtualFileSystem.moveDirectory; cwd is process.cwd().
DoMoveDirectory(st, path, targetDirPath, cwd) ==
    IF Normalize(path) = RootPath THEN Fails(st, "CannotUpdateRoot")
    ELSE LET directory == GetTargetDirectory(st.h, st.cd, path)
         IN  IF directory = Diverges THEN Fails(st, Hang)
             ELSE LET targetDir == GetTargetDirectory(st.h, st.cd, targetDirPath)
                  IN  IF targetDir = Diverges THEN Fails(st, Hang)
                      ELSE IF directory = Null THEN Fails(st, "DirectoryNotFound")
                      ELSE IF targetDir = Null THEN Fails(st, "DirectoryNotFound")
                      ELSE LET originalParent == st.h.dirs[directory].parent
                               added == AddDirectory(st.h, targetDir, directory)
                               r == IF added.err # "" \/ originalParent = Null
                                    THEN added
                                    ELSE DirRemoveDirectory(
                                             added.h, originalParent,
                                             added.h.dirs[directory].name)
                               cdPath == DirGetPath(r.h, st.cd, MaxDirs)
                           IN  IF r.err # ""
                               THEN Outcome(r.err, r.h, st.cd, st.total)
                               ELSE IF cdPath = NoPath
                               THEN Outcome(RangeError, r.h, st.cd, st.total)
                               ELSE IF RelativeIsEmpty(cdPath, path, cwd)
                               THEN Outcome("", r.h, directory, st.total)
                               ELSE Outcome("", r.h, st.cd, st.total)

(***************************************************************************)
(* The state machine: one action per public operation, called with any of  *)
(* the inputs above.  A call that throws without having changed anything   *)
(* leaves the state as it is; a call that never returns is no step.        *)
(***************************************************************************)
\* The slot a new Directory / File takes: the lowest free one, Null when
\* the heap of the model is full.
NextDirId ==
    LET free == DirIds \ InUseDirs(Heap)
    IN  IF free = {} THEN Null ELSE CHOOSE d \in free : \A e \in free : d <= e
NextFileId ==
    LET free == FileIds \ InUseFiles(Heap)
    IN  IF free = {} THEN Null ELSE CHOOSE f \in free : \A e \in free : f <= e

\* The call with outcome r takes place.
Apply(r) ==
    /\ r.err # Hang
    /\ r.err # NoSlot
    /\ LET kept == Collect(r.h, r.cd)
       IN  IF kept = Heap /\ r.cd = currentDir /\ r.total = totalFileContentBytes
           THEN UNCHANGED <<dirs, files, calls>>
           ELSE /\ calls < MaxCalls
                /\ calls' = calls + 1
                /\ dirs' = kept.dirs
                /\ files' = kept.files
    /\ currentDir' = r.cd
    /\ totalFileContentBytes' = r.total
    /\ maxBytes' = maxBytes

\* new VirtualFileSystem()
Init ==
    /\ dirs = [d \in DirIds |->
                 IF d = Root THEN NewDirectory(Null, ROOT_PATH) ELSE FreeDir]
    /\ files = [f \in FileIds |-> FreeFile]
    /\ currentDir = Root
    /\ totalFileContentBytes = 0
    /\ maxBytes = Units(MaxBytesDefault)
    /\ calls = 0

ChangeDirectory(path) ==
    Apply(DoChangeDirectory(State, path))

MakeDirectory(path) ==
    Apply(DoMakeDirectory(State, path, NextDirId))

MakeFile(path) ==
    Apply(DoMakeFile(State, path, NextFileId))

RemoveDirectory(path) ==
    Apply(DoRemoveDirectory(State, path))

RemoveFile(path) ==
    Apply(DoRemoveFile(State, path))

WriteFile(path, content) ==
    Apply(DoWriteFile(State, path, content))

MoveFile(path, targetDirPath) ==
    Apply(DoMoveFile(State, path, targetDirPath))

RenameFile(path, name) ==
    Apply(DoRenameFile(State, path, name))

RenameDirectory(path, name) ==
    Apply(DoRenameDirectory(State, path, name))

MoveDirectory(path, targetDirPath, cwd) ==
    Apply(DoMoveDirectory(State, path, targetDirPath, cwd))

Next ==
    \/ \E path \in Paths : ChangeDirectory(path)
    \/ \E path \in MakePaths : MakeDirectory(path)
    \/ \E path \in MakePaths : MakeFile(path)
    \/ \E path \in Paths : RemoveDirectory(path)
    \/ \E path \in Paths : RemoveFile(path)
    \/ \E path \in Paths, content \in Contents : WriteFile(path, content)
    \/ \E path \in Paths, targetDirPath \in Paths : MoveFile(path, targetDirPath)
    \/ \E path \in Paths, name \in NewNames : RenameFile(path, name)
    \/ \E path \in Paths, name \in NewNames : RenameDirectory(path, name)
    \/ \E path \in Paths, targetDirPath \in Paths, cwd \in ProcessCwds :
          MoveDirectory(path, targetDirPath, cwd)

Spec == Init /\ [][Next]_vars

(***************************************************************************)
(* The queries.  A query assigns nothing: its outcome is the error it      *)
(* throws and the value it returns.                                        *)
(***************************************************************************)
\* What a query returns, or throws.
Returns(value) == [err |-> "", value |-> value]
Raises(err) == [err |-> err, value |-> NoContent]

\* VirtualFileSystem.getCurrentDir
DoGetCurrentDir(st) ==
    LET path == DirGetPath(st.h, st.cd, MaxDirs)
    IN  IF path = NoPath THEN Raises(RangeError) ELSE Returns(path)

\* VirtualFileSystem.getDirectoryContents: the names of the directories,
\* then the names of the files.  path is '' also when it is not given (the
\* code tests path for truth).
DoGetDirectoryContents(st, path) ==
    LET targetDir == IF path = EmptyPath THEN st.cd
                     ELSE GetTargetDirectory(st.h, st.cd, path)
    IN  IF targetDir = Diverges THEN Raises(Hang)
        ELSE IF targetDir = Null THEN Raises("DirectoryNotFound")
        ELSE Returns([directories |-> DOMAIN st.h.dirs[targetDir].directoriesByName,
                      files |-> DOMAIN st.h.dirs[targetDir].filesByName])

\* VirtualFileSystem.getAvailableSpace
DoGetAvailableSpace(st) == Returns(st.max - st.total)

\* The orders in which forEach may visit the directories of a
\* directoriesByName map (insertion order, which the maps here do not
\* record): order[i] is the i-th directory visited among those present.
InsertionOrders == Permutations(DirIds)

\* The sequence once, taken times times.
Repeated(once, times) ==
    [i \in 1 .. (times * Len(once)) |-> once[((i - 1) % Len(once)) + 1]]

RECURSIVE FindFrom(_, _, _, _, _)
RECURSIVE FindInEntries(_, _, _, _, _, _)
\* The forEach of find over parentDir.directoriesByName, from the i-th
\* directory of order on.
FindInEntries(st, name, parentDir, order, i, fuel) ==
    IF i > MaxDirs THEN Returns(<<>>)
    ELSE LET dir == order[i]
             entries == st.h.dirs[parentDir].directoriesByName
             keys == {k \in DOMAIN entries : entries[k] = dir}
         IN  IF keys = {}
             THEN FindInEntries(st, name, parentDir, order, i + 1, fuel)
             ELSE LET dirPath == DirGetPath(st.h, dir, MaxDirs)
                  IN  IF dirPath = NoPath THEN Raises(RangeError)
                      ELSE LET own == IF st.h.dirs[dir].name = name
                                      THEN <<dirPath>> ELSE <<>>
                               below == FindFrom(st, name, dirPath, order, fuel - 1)
                               next == FindInEntries(st, name, parentDir, order,
                                                     i + 1, fuel)
                           IN  IF below.err # "" THEN below
                               ELSE IF next.err # "" THEN next
                               ELSE Returns(Repeated(own \o below.value,
                                                     Cardinality(keys))
                                            \o next.value)

\* One call of find; fuel counts the calls left on the stack: a recursion
\* deeper than the heap has directories never ends.
FindFrom(st, name, path, order, fuel) ==
    IF fuel = 0 THEN Raises(RangeError)
    ELSE LET parentDir == GetTargetDirectory(st.h, st.cd, path)
         IN  IF parentDir = Diverges THEN Raises(Hang)
             ELSE IF parentDir = Null THEN Raises("DirectoryNotFound")
             ELSE LET foundFile == MapGet(st.h.dirs[parentDir].filesByName, name)
                      filePath == IF foundFile = Null THEN <<>>
                                  ELSE <<FileGetPath(st.h, foundFile)>>
                      rest == FindInEntries(st, name, parentDir, order, 1, fuel)
                  IN  IF filePath = <<NoPath>> THEN Raises(RangeError)
                      ELSE IF rest.err # "" THEN rest
                      ELSE Returns(filePath \o rest.value)

\* VirtualFileSystem.find: the list of paths returned.  path is '.' when it
\* is not given.
DoFind(st, name, path, order) ==
    FindFrom(st, name, path, order, MaxDirs + 1)

(***************************************************************************)
(* The accounting calls alone, no file written twice: makeDirectory,       *)
(* makeFile, changeDirectory, writeFile to a file that was never written,  *)
(* removeFile, removeDirectory.                                            *)
(***************************************************************************)
\* The path names a file that has never been given content.
NeverWritten(path) ==
    LET file == GetTargetFile(Heap, currentDir, path)
    IN  file # Null /\ file # Diverges => files[file].content = NoContent

WriteFileOnce(path, content) ==
    NeverWritten(path) /\ WriteFile(path, content)

NextAccounting ==
    \/ \E path \in Paths : ChangeDirectory(path)
    \/ \E path \in MakePaths : MakeDirectory(path)
    \/ \E path \in MakePaths : MakeFile(path)
    \/ \E path \in Paths : RemoveDirectory(path)
    \/ \E path \in Paths : RemoveFile(path)
    \/ \E path \in Paths, content \in Contents : WriteFileOnce(path, content)

SpecAccounting == Init /\ [][NextAccounting]_vars

(***************************************************************************)
(* What the properties below speak of.                                     *)
(***************************************************************************)
RECURSIVE ChildClosure(_, _)
\* The directories reached from those in S through directoriesByName.
ChildClosure(h, S) ==
    LET next == S \cup UNION {MapValues(h.dirs[d].directoriesByName) : d \in S}
    IN  IF next = S THEN S ELSE ChildClosure(h, next)

\* The directories and the files reachable from the root by child links.
TreeDirs(h) == ChildClosure(h, {Root})
TreeFiles(h) == UNION {MapValues(h.dirs[d].filesByName) : d \in TreeDirs(h)}

\* The directories and the files below directory d.
SubtreeDirs(h, d) == ChildClosure(h, MapValues(h.dirs[d].directoriesByName))
SubtreeFiles(h, d) ==
    UNION {MapValues(h.dirs[x].filesByName) : x \in SubtreeDirs(h, d) \cup {d}}

\* The directories that hold directory d / file f in a child collection.
DirHolders(h, d) ==
    {x \in InUseDirs(h) : d \in MapValues(h.dirs[x].directoriesByName)}
FileHolders(h, f) ==
    {x \in InUseDirs(h) : f \in MapValues(h.dirs[x].filesByName)}

RECURSIVE SumContent(_, _)
\* The content byte lengths of the files F, summed.
SumContent(h, F) ==
    IF F = {} THEN 0
    ELSE LET f == CHOOSE x \in F : TRUE
         IN  (IF h.files[f].content = NoContent THEN 0
              ELSE ByteLength(h.files[f].content))
             + SumContent(h, F \ {f})

\* The state a call with outcome r leaves.
After(r) == [h |-> r.h, cd |-> r.cd, total |-> r.total, max |-> maxBytes]

\* The call with outcome r left everything as it was.
NothingChanged(r) ==
    /\ Collect(r.h, r.cd) = Heap
    /\ r.cd = currentDir
    /\ r.total = totalFileContentBytes

\* The outcomes of every public call with every input, from this state.
AllOutcomes ==
    {DoChangeDirectory(State, p) : p \in Paths}
    \cup {DoMakeDirectory(State, p, NextDirId) : p \in MakePaths}
    \cup {DoMakeFile(State, p, NextFileId) : p \in MakePaths}
    \cup {DoRemoveDirectory(State, p) : p \in Paths}
    \cup {DoRemoveFile(State, p) : p \in Paths}
    \cup {DoWriteFile(State, p, c) : p \in Paths, c \in Contents}
    \cup {DoMoveFile(State, p, t) : p \in Paths, t \in Paths}
    \cup {DoRenameFile(State, p, n) : p \in Paths, n \in NewNames}
    \cup {DoRenameDirectory(State, p, n) : p \in Paths, n \in NewNames}
    \cup {DoMoveDirectory(State, p, t, cwd) :
             p \in Paths, t \in Paths, cwd \in ProcessCwds}

\* The errors of the ErrorMsg enum that the public calls throw.
ErrorKinds ==
    {"DirectoryNotFound", "FileNotFound", "AmbiguousPath", "CannotUpdateRoot",
     "MissingPath", "OutOfMemory", "DirectoryExists"}

(***************************************************************************)
(* C1                                                                      *)
(***************************************************************************)
\* C1: after any sequence of public calls, no directory has one name as a
\* key of both its directoriesByName and its filesByName.
C1_NoNameInBothCollections ==
    \A d \in InUseDirs(Heap) :
        (DOMAIN dirs[d].directoriesByName) \cap (DOMAIN dirs[d].filesByName) = {}

\* A directory holds a directory and a file, and a file under the name of
\* that directory is refused there.
C1_Witness ==
    \E d \in InUseDirs(Heap) :
        /\ dirs[d].directoriesByName # EmptyMap
        /\ dirs[d].filesByName # EmptyMap
        /\ currentDir = d
        /\ \E p \in MakePaths :
              /\ Len(p.segs) = 1
              /\ p.segs[1] \in DOMAIN dirs[d].directoriesByName
              /\ DoMakeFile(State, p, NextFileId).err = "AmbiguousPath"

(***************************************************************************)
(* C2                                                                      *)
(***************************************************************************)
\* C2: after any sequence of public calls the parent links have no cycle,
\* no node is held in the child collections of two different directories,
\* and a moveDirectory that succeeds, whatever its destination, leaves the
\* moved directory and the directories below it reachable from the root.
C2_TreeShape ==
    /\ \A d \in InUseDirs(Heap) : GetRootFrom(Heap, d, MaxDirs) # Diverges
    /\ \A d \in InUseDirs(Heap) : Cardinality(DirHolders(Heap, d)) <= 1
    /\ \A f \in InUseFiles(Heap) : Cardinality(FileHolders(Heap, f)) <= 1
    /\ \A p \in Paths, t \in Paths, cwd \in ProcessCwds :
          LET d == GetTargetDirectory(Heap, currentDir, p)
              r == DoMoveDirectory(State, p, t, cwd)
          IN  (r.err = "" /\ d \in TreeDirs(Heap))
                  => ({d} \cup SubtreeDirs(Heap, d)) \subseteq TreeDirs(r.h)

(***************************************************************************)
(* C3                                                                      *)
(***************************************************************************)
\* C3: after any sequence of public calls, with any spelling of a path that
\* resolves to the root, the root has no parent, is named '/', and is in
\* no directory's child collection.
C3_RootUntouched ==
    /\ dirs[Root].parent = Null
    /\ dirs[Root].name = ROOT_PATH
    /\ DirHolders(Heap, Root) = {}

(***************************************************************************)
(* C4                                                                      *)
(***************************************************************************)
\* C4: from any reachable state and current directory, removeDirectory('/'),
\* renameDirectory('/', x) and moveDirectory('/', x) throw CannotUpdateRoot
\* for every x and change nothing.
C4_RootProtection ==
    /\ DoRemoveDirectory(State, RootPath) = Fails(State, "CannotUpdateRoot")
    /\ \A x \in NewNames :
          DoRenameDirectory(State, RootPath, x) = Fails(State, "CannotUpdateRoot")
    /\ \A x \in Paths, cwd \in ProcessCwds :
          DoMoveDirectory(State, RootPath, x, cwd)
              = Fails(State, "CannotUpdateRoot")

(***************************************************************************)
(* C5                                                                      *)
(***************************************************************************)
\* C5: after any sequence of makeDirectory, makeFile, changeDirectory,
\* writeFile, removeFile and removeDirectory calls that writes no file
\* twice, totalFileContentBytes is the sum of the content byte lengths of
\* the files reachable from the root.
C5_CounterIsSum ==
    totalFileContentBytes = SumContent(Heap, TreeFiles(Heap))

(***************************************************************************)
(* C6                                                                      *)
(***************************************************************************)
\* C6: writeFile(path, content) on an existing file throws OutOfMemory
\* exactly when totalFileContentBytes + byteLength(content) > maxBytes (a
\* write that lands on maxBytes succeeds), and a write that throws leaves
\* the file's content, its contentByteCount and the counter as they were.
C6_OutOfMemory ==
    \A p \in Paths, c \in Contents :
        LET file == GetTargetFile(Heap, currentDir, p)
            r == DoWriteFile(State, p, c)
        IN  (file # Null /\ file # Diverges) =>
              /\ r.err \in {"", "OutOfMemory"}
              /\ r.err = "OutOfMemory"
                    <=> totalFileContentBytes + ByteLength(c) > maxBytes
              /\ r.err = "OutOfMemory" =>
                    /\ r.h.files[file].content = files[file].content
                    /\ r.h.files[file].contentByteCount
                          = files[file].contentByteCount
                    /\ r.total = totalFileContentBytes

\* A write has landed exactly on maxBytes, and the next write of the Buffer
\* to a file that holds content is refused.
C6_Witness ==
    /\ totalFileContentBytes = maxBytes
    /\ \E p \in Paths :
          LET file == GetTargetFile(Heap, currentDir, p)
          IN  /\ file # Null /\ file # Diverges
              /\ files[file].content = "buf"
              /\ DoWriteFile(State, p, "buf").err = "OutOfMemory"

C8_FailureChangesNothing ==
    \A r \in AllOutcomes : r.err \in ErrorKinds => NothingChanged(r)

(***************************************************************************)
(* C9                                                                      *)
(***************************************************************************)
\* C9: after a moveFile(path, targetDirPath) that succeeds, for every
\* destination, the directory the file is in included, the destination
\* holds the file under its name with its content as it was, and when the
\* destination is not the original parent, that parent holds it no more.
C9_MoveFile ==
    \A p \in Paths, t \in Paths :
        LET file == GetTargetFile(Heap, currentDir, p)
            targetDir == GetTargetDirectory(Heap, currentDir, t)
            r == DoMoveFile(State, p, t)
        IN  r.err = "" =>
              /\ MapGet(r.h.dirs[targetDir].filesByName, files[file].name) = file
              /\ r.h.files[file].content = files[file].content
              /\ r.h.files[file].name = files[file].name
              /\ targetDir # files[file].parent =>
                    file \notin MapValues(r.h.dirs[files[file].parent].filesByName)

(***************************************************************************)
(* C10                                                                     *)
(***************************************************************************)
\* C10: after a moveDirectory(path, targetDirPath) that succeeds, the
\* destination holds the moved directory under its name with its subtree
\* as it was, and the original parent lists it no more, unless it is the
\* destination, and then it still lists it.
C10_MoveDirectory ==
    \A p \in Paths, t \in Paths, cwd \in ProcessCwds :
        LET dir == GetTargetDirectory(Heap, currentDir, p)
            targetDir == GetTargetDirectory(Heap, currentDir, t)
            r == DoMoveDirectory(State, p, t, cwd)
        IN  r.err = "" =>
              /\ MapGet(r.h.dirs[targetDir].directoriesByName, dirs[dir].name) = dir
              /\ r.h.dirs[dir].name = dirs[dir].name
              /\ r.h.dirs[dir].directoriesByName = dirs[dir].directoriesByName
              /\ r.h.dirs[dir].filesByName = dirs[dir].filesByName
              /\ \A x \in SubtreeDirs(Heap, dir) \ {dir} : r.h.dirs[x] = dirs[x]
              /\ \A f \in SubtreeFiles(Heap, dir) : r.h.files[f] = files[f]
              /\ (dirs[dir].parent # Null /\ targetDir # dirs[dir].parent) =>
                    dir \notin MapValues(
                        r.h.dirs[dirs[dir].parent].directoriesByName)

(***************************************************************************)
(* C11                                                                     *)
(***************************************************************************)
\* The working directories the host process may have.
HostCwds == ProcessCwds \cup { <<"a", "b", "a">> }

RECURSIVE NamesBelow(_, _, _, _)
\* The names on the parent chain from d up to, not including, m.
NamesBelow(h, d, m, fuel) ==
    IF d = m \/ fuel = 0 \/ h.dirs[d].parent = Null THEN <<>>
    ELSE Append(NamesBelow(h, h.dirs[d].parent, m, fuel - 1), h.dirs[d].name)

\* C11: after a moveDirectory(path, targetDirPath) that succeeds while the
\* current directory is the moved directory or a directory below it, the
\* current directory is the same node, and getCurrentDir() returns the
\* destination's path, then the moved directory's name, then the unchanged
\* remainder.
C11_CurrentDirFollowsMove ==
    \A p \in Paths, t \in Paths, cwd \in HostCwds :
        LET dir == GetTargetDirectory(Heap, currentDir, p)
            targetDir == GetTargetDirectory(Heap, currentDir, t)
            r == DoMoveDirectory(State, p, t, cwd)
        IN  (r.err = "" /\ currentDir \in {dir} \cup SubtreeDirs(Heap, dir)) =>
              /\ r.cd = currentDir
              /\ DoGetCurrentDir(After(r)) =
                    Returns(P(TRUE,
                              DirGetPath(Heap, targetDir, MaxDirs).segs
                                  \o <<dirs[dir].name>>
                                  \o NamesBelow(Heap, currentDir, dir, MaxDirs),
                              FALSE))

(***************************************************************************)
(* C12                                                                     *)
(***************************************************************************)
\* C12: after a renameFile(path, name) or renameDirectory(path, name) that
\* succeeds, for every name, the node's current name included, the parent
\* holds the node under name with its content and its subtree as they were,
\* and when name is not the original name the parent has no entry left
\* under the original name.
C12_Rename ==
    \A p \in Paths, n \in NewNames :
        /\ LET file == GetTargetFile(Heap, currentDir, p)
               r == DoRenameFile(State, p, n)
           IN  r.err = "" =>
                 LET held == r.h.dirs[files[file].parent].filesByName
                 IN  /\ MapGet(held, n) = file
                     /\ r.h.files[file].name = n
                     /\ r.h.files[file].content = files[file].content
                     /\ n # files[file].name => files[file].name \notin DOMAIN held
        /\ LET dir == GetTargetDirectory(Heap, currentDir, p)
               r == DoRenameDirectory(State, p, n)
           IN  r.err = "" =>
                 LET held == r.h.dirs[dirs[dir].parent].directoriesByName
                 IN  /\ MapGet(held, n) = dir
                     /\ r.h.dirs[dir].name = n
                     /\ r.h.dirs[dir].directoriesByName = dirs[dir].directoriesByName
                     /\ r.h.dirs[dir].filesByName = dirs[dir].filesByName
                     /\ \A x \in SubtreeDirs(Heap, dir) \ {dir} :
                           r.h.dirs[x] = dirs[x]
                     /\ \A f \in SubtreeFiles(Heap, dir) : r.h.files[f] = files[f]
                     /\ n # dirs[dir].name => dirs[dir].name \notin DOMAIN held

(***************************************************************************)
(* C13                                                                     *)
(***************************************************************************)
\* C13: makeDirectory('') and makeFile('') both throw MissingPath and
\* create no node.
C13_MissingPath ==
    /\ DoMakeDirectory(State, EmptyPath, NextDirId) = Fails(State, "MissingPath")
    /\ DoMakeFile(State, EmptyPath, NextFileId) = Fails(State, "MissingPath")

(***************************************************************************)
(* C14                                                                     *)
(***************************************************************************)
\* The non-empty path strings of makeDirectory and makeFile: those of
\* MakePaths, and '/', '.', '..'.
NonEmptyMakePaths ==
    (MakePaths \ {EmptyPath}) \cup {RootPath, DotPath, P(FALSE, <<MOVE_UP>>, FALSE)}

\* C14: makeDirectory(path) and makeFile(path) with a non-empty path throw
\* DirectoryNotFound and create nothing when the directory portion of the
\* path resolves to no directory; otherwise an empty directory, or a file
\* without content, named by the final segment is afterwards in that parent
\* and the same path resolves to it.
C14_Make ==
    \A p \in NonEmptyMakePaths :
        LET path == Normalize(p)
            name == Basename(path)
            parent == GetTargetDirectory(Heap, currentDir, Dirname(path))
            d == DoMakeDirectory(State, p, NextDirId)
            f == DoMakeFile(State, p, NextFileId)
            resolves == parent # Null /\ parent # Diverges
        IN  /\ (d.err # NoSlot /\ ~resolves) => d = Fails(State, "DirectoryNotFound")
            /\ (f.err # NoSlot /\ ~resolves) => f = Fails(State, "DirectoryNotFound")
            /\ (d.err # NoSlot /\ resolves) =>
                  /\ d.err = ""
                  /\ LET new == MapGet(d.h.dirs[parent].directoriesByName, name)
                     IN  /\ new # Null
                         /\ d.h.dirs[new] = NewDirectory(parent, name)
                         /\ GetTargetDirectory(d.h, d.cd, p) = new
            /\ (f.err # NoSlot /\ resolves) =>
                  /\ f.err = ""
                  /\ LET new == MapGet(f.h.dirs[parent].filesByName, name)
                     IN  /\ new # Null
                         /\ f.h.files[new] = NewFile(parent, name, NoContent)
                         /\ GetTargetFile(f.h, f.cd, p) = new

(***************************************************************************)
(* C15                                                                     *)
(***************************************************************************)
\* Every node of st reachable from the root is what its own path resolves
\* to, from st's current directory.
PathsResolve(st) ==
    /\ \A d \in TreeDirs(st.h) :
          LET path == DirGetPath(st.h, d, MaxDirs)
          IN  path # NoPath /\ GetTargetDirectory(st.h, st.cd, path) = d
    /\ \A f \in TreeFiles(st.h) :
          LET path == FileGetPath(st.h, f)
          IN  path # NoPath /\ GetTargetFile(st.h, st.cd, path) = f

\* C15: after any sequence of public calls, for every node N reachable from
\* the root, the nodes that makeDirectory and makeFile create for the final
\* segments '.' and '..' and for the path '/' included, resolving
\* N.getPath() with N's kind returns N, from any current directory.
C15_PathRoundTrip ==
    /\ PathsResolve(State)
    /\ \A p \in NonEmptyMakePaths :
          LET d == DoMakeDirectory(State, p, NextDirId)
              f == DoMakeFile(State, p, NextFileId)
          IN  /\ d.err = "" => PathsResolve(After(d))
              /\ f.err = "" => PathsResolve(After(f))

(***************************************************************************)
(* C16                                                                     *)
(***************************************************************************)
\* The names the callers search for.
FindNames == {"a", "b", "."}

\* The paths the callers start a search at; '.' is also no path given.
FindPaths == Paths

\* The paths of the directories and files below directory S named name.
MatchDirs(S, name) == {d \in SubtreeDirs(Heap, S) : dirs[d].name = name}
MatchFiles(S, name) == {f \in SubtreeFiles(Heap, S) : files[f].name = name}
MatchPaths(S, name) ==
    {DirGetPath(Heap, d, MaxDirs) : d \in MatchDirs(S, name)}
    \cup {FileGetPath(Heap, f) : f \in MatchFiles(S, name)}

\* The paths of the nodes named name directly inside directory D, and of
\* those deeper in D.
DirectPaths(D, name) ==
    {DirGetPath(Heap, d, MaxDirs) :
        d \in {x \in MapValues(dirs[D].directoriesByName) : dirs[x].name = name}}
    \cup {FileGetPath(Heap, f) :
        f \in {x \in MapValues(dirs[D].filesByName) : files[x].name = name}}
DeeperPaths(D, name) ==
    UNION {MatchPaths(x, name) : x \in MapValues(dirs[D].directoriesByName)}

\* C16: find(name, path?) started at an existing directory S, the current
\* directory when no path is given, returns exactly once the absolute path
\* of every file and directory below S named name, a match directly inside
\* a directory before the matches deeper in that directory, and returns an
\* empty list, throwing nothing, when nothing matches.
C16_Find ==
    \A name \in FindNames, path \in FindPaths, order \in InsertionOrders :
        LET S == GetTargetDirectory(Heap, currentDir, path)
            r == DoFind(State, name, path, order)
            found == r.value
        IN  (S # Null /\ S # Diverges) =>
              /\ r.err = ""
              /\ {found[i] : i \in 1 .. Len(found)} = MatchPaths(S, name)
              /\ Len(found)
                    = Cardinality(MatchDirs(S, name)) + Cardinality(MatchFiles(S, name))
              /\ \A D \in {S} \cup SubtreeDirs(Heap, S) :
                    \A i \in 1 .. Len(found), j \in 1 .. Len(found) :
                        (found[i] \in DirectPaths(D, name)
                            /\ found[j] \in DeeperPaths(D, name)) => i < j

(***************************************************************************)
(* C17                                                                     *)
(***************************************************************************)
\* C17: changeDirectory(path) makes the directory the path resolves to the
\* current directory (the root when no path is given, which is path '/');
\* when the path resolves to no directory, also when it names a file, it
\* throws DirectoryNotFound and the current directory stays; it never
\* changes the tree or the counter.
C17_ChangeDirectory ==
    \A p \in Paths :
        LET targetDir == GetTargetDirectory(Heap, currentDir, p)
            r == DoChangeDirectory(State, p)
        IN  IF targetDir # Null /\ targetDir # Diverges
            THEN r = Outcome("", Heap, targetDir, totalFileContentBytes)
            ELSE r = Fails(State, "DirectoryNotFound")

(***************************************************************************)
(* C18                                                                     *)
(***************************************************************************)
\* The spellings '..' and '../'.
MoveUpPaths == {P(FALSE, <<MOVE_UP>>, FALSE), P(FALSE, <<MOVE_UP>>, TRUE)}

\* C18: changeDirectory('..'), and '../', while the current directory is
\* the root throws nothing and leaves the current directory at the root;
\* from any other current directory it makes its parent the current
\* directory.
C18_MoveUp ==
    \A p \in MoveUpPaths :
        DoChangeDirectory(State, p) =
            Outcome("", Heap,
                    IF currentDir = Root THEN Root ELSE dirs[currentDir].parent,
                    totalFileContentBytes)

(***************************************************************************)
(* C19                                                                     *)
(***************************************************************************)
\* C19: a removeFile(path) or removeDirectory(path) that succeeds removes
\* the resolved file, or the resolved directory with its whole subtree, and
\* nothing else: the path resolves no more, totalFileContentBytes is down
\* by exactly the content bytes of the removed files, and every other node,
\* its content and its place in the tree are as they were.
C19_Remove ==
    \A p \in Paths :
        /\ LET file == GetTargetFile(Heap, currentDir, p)
               r == DoRemoveFile(State, p)
           IN  r.err = "" =>
                 /\ GetTargetFile(r.h, r.cd, p) = Null
                 /\ r.total = totalFileContentBytes - SumContent(Heap, {file})
                 /\ r.cd = currentDir
                 /\ \A f \in InUseFiles(Heap) \ {file} : r.h.files[f] = files[f]
                 /\ \A d \in InUseDirs(Heap) :
                       r.h.dirs[d] =
                           [dirs[d] EXCEPT !.filesByName =
                               [k \in {x \in DOMAIN @ : @[x] # file} |-> @[k]]]
        /\ LET dir == GetTargetDirectory(Heap, currentDir, p)
               r == DoRemoveDirectory(State, p)
           IN  r.err = "" =>
                 LET gone == {dir} \cup SubtreeDirs(Heap, dir)
                 IN  /\ GetTargetDirectory(r.h, r.cd, p) = Null
                     /\ r.total = totalFileContentBytes
                                     - SumContent(Heap, SubtreeFiles(Heap, dir))
                     /\ r.cd = currentDir
                     /\ \A f \in InUseFiles(Heap) \ SubtreeFiles(Heap, dir) :
                           r.h.files[f] = files[f]
                     /\ \A d \in InUseDirs(Heap) \ gone :
                           r.h.dirs[d] =
                               [dirs[d] EXCEPT !.directoriesByName =
                                   [k \in {x \in DOMAIN @ : @[x] # dir} |-> @[k]]]

(***************************************************************************)
(* The calls together with the queries.  A query that returns or throws is *)
(* a step; one that never returns is none.                                 *)
(***************************************************************************)
ReadFile(path) ==
    /\ DoReadFile(State, path).err # Hang
    /\ UNCHANGED vars

GetDirectoryContents(path) ==
    /\ DoGetDirectoryContents(State, path).err # Hang
    /\ UNCHANGED vars

GetAvailableSpace ==
    /\ DoGetAvailableSpace(State).err # Hang
    /\ UNCHANGED vars

GetCurrentDir ==
    /\ DoGetCurrentDir(State).err # Hang
    /\ UNCHANGED vars

\* find that walks the tree by changing the current directory and leaves
\* it where the search started.
FindMovingCurrentDir(name, path) ==
    /\ \E order \in InsertionOrders : DoFind(State, name, path, order).err # Hang
    /\ LET started == GetTargetDirectory(Heap, currentDir, path)
       IN  currentDir' = IF started = Null \/ started = Diverges
                         THEN currentDir ELSE started
    /\ UNCHANGED <<dirs, files, totalFileContentBytes, maxBytes, calls>>

Find(name, path) ==
    /\ \E order \in InsertionOrders : DoFind(State, name, path, order).err # Hang
    /\ UNCHANGED vars

Query ==
    \/ \E path \in Paths : ReadFile(path)
    \/ \E path \in Paths \cup {EmptyPath} : GetDirectoryContents(path)
    \/ GetAvailableSpace
    \/ GetCurrentDir
    \/ \E name \in FindNames, path \in FindPaths : Find(name, path)

NextWithQueries == Next \/ Query

SpecWithQueries == Init /\ [][NextWithQueries]_vars

NameArgs == NewNames \cup {NoArg}

\* The parent arguments of an update: a directory, or none.
ParentArgs == InUseDirs(Heap) \cup {Null}

\* C21: Directory.update({name?, parent?}) throws CannotUpdateRoot on a
\* directory with no parent and AmbiguousPath when the resulting parent has
\* a file of the resulting name, changing nothing in either case; when it
\* returns, the resulting parent holds the directory under the resulting
\* name, also when neither the name nor the parent changes, and when one of
\* them changed the old parent holds it no more under the old name.
C21_DirectoryUpdate ==
    \A this \in InUseDirs(Heap), nameArg \in NameArgs, parentArg \in ParentArgs :
        LET originalParent == dirs[this].parent
            originalName == dirs[this].name
            name == IF nameArg = NoArg THEN originalName ELSE nameArg
            parent == IF parentArg = Null THEN originalParent ELSE parentArg
            r == DirUpdate(Heap, this, nameArg, parentArg)
        IN  IF originalParent = Null
            THEN r = Throw("CannotUpdateRoot", Heap)
            ELSE IF HasFile(Heap, parent, name)
            THEN r = Throw("AmbiguousPath", Heap)
            ELSE /\ r.err = ""
                 /\ MapGet(r.h.dirs[parent].directoriesByName, name) = this
                 /\ r.h.dirs[this].name = name
                 /\ r.h.dirs[this].parent = parent
                 /\ (name # originalName \/ parent # originalParent) =>
                       MapGet(r.h.dirs[originalParent].directoriesByName,
                              originalName) # this

(***************************************************************************)
(* C22                                                                     *)
(***************************************************************************)
\* The content arguments of an update: a content, or none.
ContentArgs == Contents \cup {NoContent}

\* C22: after a File.update that returns, with any subset of name, parent
\* and content given, content alone included, the resulting parent holds
\* the file under the resulting name, the fields not given are what they
\* were, and when the name or the parent changed the old parent has no
\* entry under the old name.
C22_FileUpdate ==
    \A this \in InUseFiles(Heap), nameArg \in NameArgs, parentArg \in ParentArgs,
       contentArg \in ContentArgs :
        LET originalParent == files[this].parent
            originalName == files[this].name
            name == IF nameArg = NoArg THEN originalName ELSE nameArg
            parent == IF parentArg = Null THEN originalParent ELSE parentArg
            r == FileUpdate(Heap, this, nameArg, parentArg, contentArg)
        IN  r.err = "" =>
              /\ MapGet(r.h.dirs[parent].filesByName, name) = this
              /\ r.h.files[this].name = name
              /\ r.h.files[this].parent = parent
              /\ r.h.files[this].content =
                    IF contentArg = NoContent THEN files[this].content
                    ELSE contentArg
              /\ (name # originalName \/ parent # originalParent) =>
                    originalName \notin DOMAIN r.h.dirs[originalParent].filesByName

(***************************************************************************)
(* C23                                                                     *)
(***************************************************************************)
\* The File object file has its contentByteCount at the byte length of its
\* content, when it has content.
CountIsByteLength(file) ==
    file.content # NoContent => file.contentByteCount = ByteLength(file.content)

\* C23: every file, after its construction and after any sequence of
\* setContent, File.update and writeFile calls, has its contentByteCount at
\* the byte length of its content whenever it has content.
C23_ContentByteCount ==
    /\ \A content \in ContentArgs : CountIsByteLength(NewFile(Root, "a", content))
    /\ \A this \in InUseFiles(Heap) :
          /\ CountIsByteLength(files[this])
          /\ \A content \in Contents :
                CountIsByteLength(SetContent(Heap, this, content).files[this])
          /\ \A nameArg \in NameArgs, parentArg \in ParentArgs,
                contentArg \in ContentArgs :
                CountIsByteLength(
                    FileUpdate(Heap, this, nameArg, parentArg, contentArg)
                        .h.files[this])

(***************************************************************************)
(* C24                                                                     *)
(***************************************************************************)
\* C24: Directory.addDirectory(dir) throws AmbiguousPath when the directory
\* holds a file of dir.name, and Directory.addFile(file) throws
\* AmbiguousPath when it holds a directory of file.name, and both then
\* leave the collections and the argument's parent as they were; otherwise
\* the argument is stored under its name, in the place of any node of its
\* kind stored under that name, and its parent is this directory.
C24_Add ==
    \A this \in InUseDirs(Heap) :
        /\ \A dir \in InUseDirs(Heap) :
              LET name == dirs[dir].name
                  r == AddDirectory(Heap, this, dir)
                  held == r.h.dirs[this].directoriesByName
              IN  IF name \in DOMAIN dirs[this].filesByName
                  THEN r = Throw("AmbiguousPath", Heap)
                  ELSE /\ r.err = ""
                       /\ DOMAIN held = DOMAIN dirs[this].directoriesByName \cup {name}
                       /\ \A k \in DOMAIN held :
                             held[k] = IF k = name THEN dir
                                       ELSE dirs[this].directoriesByName[k]
                       /\ r.h.dirs[this].filesByName = dirs[this].filesByName
                       /\ r.h.dirs[dir].parent = this
                       /\ r.h.dirs[dir].name = name
        /\ \A file \in InUseFiles(Heap) :
              LET name == files[file].name
                  r == AddFile(Heap, this, file)
                  held == r.h.dirs[this].filesByName
              IN  IF name \in DOMAIN dirs[this].directoriesByName
                  THEN r = Throw("AmbiguousPath", Heap)
                  ELSE /\ r.err = ""
                       /\ DOMAIN held = DOMAIN dirs[this].filesByName \cup {name}
                       /\ \A k \in DOMAIN held :
                             held[k] = IF k = name THEN file
                                       ELSE dirs[this].filesByName[k]
                       /\ r.h.dirs[this].directoriesByName
                             = dirs[this].directoriesByName
                       /\ r.h.files[file].parent = this
                       /\ r.h.files[file].name = name

\* A directory holds a file under the name of another directory, a
\* directory holds a directory under the name of a file, and a directory
\* holds a directory under the name of a third one: a moveDirectory and a
\* moveFile are refused with AmbiguousPath, and an addDirectory would
\* replace a directory.
C24_Witness ==
    /\ \E p \in Paths, t \in Paths, cwd \in ProcessCwds :
          DoMoveDirectory(State, p, t, cwd)
              = Outcome("AmbiguousPath", Heap, currentDir, totalFileContentBytes)
    /\ \E p \in Paths, t \in Paths :
          DoMoveFile(State, p, t)
              = Outcome("AmbiguousPath", Heap, currentDir, totalFileContentBytes)
    /\ \E this \in InUseDirs(Heap), dir \in InUseDirs(Heap) :
          /\ MapGet(dirs[this].directoriesByName, dirs[dir].name) \notin {Null, dir}
          /\ AddDirectory(Heap, this, dir).err = ""

(***************************************************************************)
(* C25                                                                     *)
(***************************************************************************)
\* C25: after any sequence of public calls, a removeDirectory of the
\* current directory or of a directory above it and a moveDirectory that
\* replaces a directory of the same name included, the current directory
\* is a directory reachable from the root by child links.
C25_CurrentDirInTree ==
    currentDir \in TreeDirs(Heap)

(***************************************************************************)
(* C26                                                                     *)
(***************************************************************************)
\* C26: after any sequence of public calls, a removeFile through a current
\* directory that has itself been removed included, totalFileContentBytes
\* is not negative and getAvailableSpace() is not above maxBytes.
C26_CounterNotNegative ==
    /\ totalFileContentBytes >= 0
    /\ DoGetAvailableSpace(State).value <= maxBytes
    /\ \A r \in AllOutcomes :
          /\ r.total >= 0
          /\ DoGetAvailableSpace(After(r)).value <= maxBytes

(***************************************************************************)
(* C27                                                                     *)
(***************************************************************************)
\* The contents written below: those of Contents, and a Buffer that fills
\* the capacity.
CapacityContents == Contents \cup {FullBuffer}

\* The content byte lengths of the files of h reachable from the root,
\* summed.
SumInTree(h) == SumContent(h, TreeFiles(h))

\* C27: with maxBytes as the constructor set it, after any sequence of
\* public calls the content byte lengths of the files reachable from the
\* root sum to maxBytes at most: here after the calls made so far, and
\* after a makeFile and a writeFile that follow them.
C27_SumWithinCapacity ==
    /\ SumInTree(Heap) <= maxBytes
    /\ \A p \in MakePaths, q \in Paths, content \in CapacityContents :
          LET made == DoMakeFile(State, p, NextFileId)
              written == DoWriteFile(After(made), q, content)
          IN  (made.err \notin {Hang, NoSlot} /\ written.err # Hang) =>
                 SumInTree(written.h) <= maxBytes

(***************************************************************************)
(* C28                                                                     *)
(***************************************************************************)
\* C28: after any sequence of public calls, returned or thrown, every
\* entry (key, N) of the directoriesByName or the filesByName of a
\* directory D reachable from the root has N.name = key and N.parent = D.
C28_EntriesMatchNodes ==
    \A D \in TreeDirs(Heap) :
        /\ \A key \in DOMAIN dirs[D].directoriesByName :
              LET N == dirs[D].directoriesByName[key]
              IN  dirs[N].name = key /\ dirs[N].parent = D
        /\ \A key \in DOMAIN dirs[D].filesByName :
              LET N == dirs[D].filesByName[key]
              IN  files[N].name = key /\ files[N].parent = D

(***************************************************************************)
(* C29                                                                     *)
(***************************************************************************)
\* The relative paths made of '..' segments only: '..', '../..' and
\* '../../..'.
UpOnlyPaths ==
    { P(FALSE, <<MOVE_UP>>, FALSE),
      P(FALSE, <<MOVE_UP, MOVE_UP>>, FALSE),
      P(FALSE, <<MOVE_UP, MOVE_UP, MOVE_UP>>, FALSE) }

RECURSIVE ParentTimes(_, _, _)
\* The directory reached from d by moving to the parent k times, staying
\* at a directory that has no parent.
ParentTimes(h, d, k) ==
    IF k = 0 THEN d
    ELSE ParentTimes(h, IF h.dirs[d].parent # Null THEN h.dirs[d].parent ELSE d,
                     k - 1)

\* C29: resolving as a Directory a relative path made of k >= 1 '..'
\* segments only never fails, and gives the directory reached from the
\* current directory by moving to the parent k times, staying at the root
\* once it is reached.
C29_UpOnly ==
    \A path \in UpOnlyPaths :
        GetTargetDirectory(Heap, currentDir, path)
            = ParentTimes(Heap, currentDir, Len(path.segs))

(***************************************************************************)
(* C30                                                                     *)
(***************************************************************************)
\* The errors of the queries, with every input, from this state.
QueryErrors ==
    {DoReadFile(State, p).err : p \in Paths}
    \cup {DoGetDirectoryContents(State, p).err : p \in Paths \cup {EmptyPath}}
    \cup {DoGetAvailableSpace(State).err, DoGetCurrentDir(State).err}
    \cup {DoFind(State, name, p, order).err :
             name \in FindNames, p \in FindPaths, order \in InsertionOrders}

\* C30: after any sequence of public calls every further public call
\* terminates: the walk of _getRoot ends, and the recursions of getPath, of
\* find and of getTotalByteCount end, none running until the stack
\* overflows.
C30_Terminates ==
    /\ \A r \in AllOutcomes : r.err \notin {Hang, RangeError}
    /\ QueryErrors \cap {Hang, RangeError} = {}
====
